---------------------------- MODULE Spec2Model ----------------------------
(***************************************************************************)
(* A model of tools/fetch_emblems.py: the batch job that resolves each     *)
(* country to an emblem file on Wikimedia Commons, downloads it into a     *)
(* cache directory, extracts the bounding box and the inner markup, and    *)
(* merges the records into public/symbols.json.                            *)
(*                                                                         *)
(* Python strings whose characters matter (country names, titles, width    *)
(* and height attributes, identifiers) are sequences of one-character      *)
(* strings, so that lower(), replace() and re.sub() are modelled by what   *)
(* they do to the characters.                                              *)
(***************************************************************************)
EXTENDS Integers, Sequences, FiniteSets, TLC

VARIABLES
    \* ---- main(): one run after the other over the same files
    out_json,        \* content of public/symbols.json
    cache,           \* CACHE_DIR: sanitized file name -> file content
    pc,              \* "start" | "loop" | "done" | "crashed"
    run,             \* completed runs so far
    idx,             \* loop position in the country list (i - 1)
    ok, failed,      \* counters of main()
    results,         \* records produced in this run
    existing_by_id,  \* the mapping built from the existing file
    gets,            \* asset GETs issued in this run
    hits,            \* lookup result of every entity of this run
    last,            \* what the last loop iteration did
    prev,            \* the previous run: failed, and the cache paths it used
    out_before,      \* public/symbols.json as the current run found it
    \* ---- download_svg
    dl_pc,           \* "call" | "loop" | "returned"
    dl_attempt,      \* the loop variable attempt
    dl_ret,          \* the return value
    dl_dest,         \* content of the destination file
    dl_dest0,        \* content of the destination file at the call
    dl_log,          \* outcome of every session.get of the call
    \* ---- commons_search_svg
    se_pc,           \* "exact" | "query" | "hits" | "returned"
    se_k,            \* index in patterns / query_variants
    se_hits,         \* hits of the current search query, not yet inspected
    se_answer,       \* all hits of the current search query
    se_ret,          \* the return value
    se_log,          \* the exact lookups and search queries so far
    se_resolved,     \* the hits of the current query resolved so far
    se_country,      \* the argument
    \* ---- extract_inner_svg
    ex_doc,          \* the file handed to extract_inner_svg
    ex_ret,          \* its return value
    ex_pc,           \* "call" | "returned"
    \* ---- identifiers
    id_a, id_b,      \* two entities (indices into UN_COUNTRIES)
    id_reca, id_recb \* the identifier of the record built for each

mainVars == <<out_json, cache, pc, run, idx, ok, failed, results,
              existing_by_id, gets, hits, last, prev, out_before>>
dlVars   == <<dl_pc, dl_attempt, dl_ret, dl_dest, dl_dest0, dl_log>>
seVars   == <<se_pc, se_k, se_hits, se_answer, se_ret, se_log,
             se_resolved, se_country>>
exVars   == <<ex_doc, ex_ret, ex_pc>>
idVars   == <<id_a, id_b, id_reca, id_recb>>
vars     == <<mainVars, dlVars, seVars, exVars, idVars>>

---------------------------------------------------------------------------
(* Strings *)

UN_COUNTRIES ==
  <<
    <<"A","f","g","h","a","n","i","s","t","a","n">>,
    <<"A","l","b","a","n","i","a">>,
    <<"A","l","g","e","r","i","a">>,
    <<"A","n","d","o","r","r","a">>,
    <<"A","n","g","o","l","a">>,
    <<"A","n","t","i","g","u","a"," ","a","n","d"," ","B","a","r","b","u","d","a">>,
    <<"A","r","g","e","n","t","i","n","a">>,
    <<"A","r","m","e","n","i","a">>,
    <<"A","u","s","t","r","a","l","i","a">>,
    <<"A","u","s","t","r","i","a">>,
    <<"A","z","e","r","b","a","i","j","a","n">>,
    <<"B","a","h","a","m","a","s">>,
    <<"B","a","h","r","a","i","n">>,
    <<"B","a","n","g","l","a","d","e","s","h">>,
    <<"B","a","r","b","a","d","o","s">>,
    <<"B","e","l","a","r","u","s">>,
    <<"B","e","l","g","i","u","m">>,
    <<"B","e","l","i","z","e">>,
    <<"B","e","n","i","n">>,
    <<"B","h","u","t","a","n">>,
    <<"B","o","l","i","v","i","a">>,
    <<"B","o","s","n","i","a"," ","a","n","d"," ","H","e","r","z","e","g","o","v","i","n","a">>,
    <<"B","o","t","s","w","a","n","a">>,
    <<"B","r","a","z","i","l">>,
    <<"B","r","u","n","e","i">>,
    <<"B","u","l","g","a","r","i","a">>,
    <<"B","u","r","k","i","n","a"," ","F","a","s","o">>,
    <<"B","u","r","u","n","d","i">>,
    <<"C","a","b","o"," ","V","e","r","d","e">>,
    <<"C","a","m","b","o","d","i","a">>,
    <<"C","a","m","e","r","o","o","n">>,
    <<"C","a","n","a","d","a">>,
    <<"C","e","n","t","r","a","l"," ","A","f","r","i","c","a","n"," ","R","e","p","u","b","l","i","c">>,
    <<"C","h","a","d">>,
    <<"C","h","i","l","e">>,
    <<"C","h","i","n","a">>,
    <<"C","o","l","o","m","b","i","a">>,
    <<"C","o","m","o","r","o","s">>,
    <<"C","o","n","g","o">>,
    <<"C","o","s","t","a"," ","R","i","c","a">>,
    <<"C","ô","t","e"," ","d","'","I","v","o","i","r","e">>,
    <<"C","r","o","a","t","i","a">>,
    <<"C","u","b","a">>,
    <<"C","y","p","r","u","s">>,
    <<"C","z","e","c","h","i","a">>,
    <<"D","e","m","o","c","r","a","t","i","c"," ","R","e","p","u","b","l","i","c"," ","o","f"," ","t","h","e"," ","C","o","n","g","o">>,
    <<"D","e","n","m","a","r","k">>,
    <<"D","j","i","b","o","u","t","i">>,
    <<"D","o","m","i","n","i","c","a">>,
    <<"D","o","m","i","n","i","c","a","n"," ","R","e","p","u","b","l","i","c">>,
    <<"E","c","u","a","d","o","r">>,
    <<"E","g","y","p","t">>,
    <<"E","l"," ","S","a","l","v","a","d","o","r">>,
    <<"E","q","u","a","t","o","r","i","a","l"," ","G","u","i","n","e","a">>,
    <<"E","r","i","t","r","e","a">>,
    <<"E","s","t","o","n","i","a">>,
    <<"E","s","w","a","t","i","n","i">>,
    <<"E","t","h","i","o","p","i","a">>,
    <<"F","i","j","i">>,
    <<"F","i","n","l","a","n","d">>,
    <<"F","r","a","n","c","e">>,
    <<"G","a","b","o","n">>,
    <<"G","a","m","b","i","a">>,
    <<"G","e","o","r","g","i","a">>,
    <<"G","e","r","m","a","n","y">>,
    <<"G","h","a","n","a">>,
    <<"G","r","e","e","c","e">>,
    <<"G","r","e","n","a","d","a">>,
    <<"G","u","a","t","e","m","a","l","a">>,
    <<"G","u","i","n","e","a">>,
    <<"G","u","i","n","e","a","-","B","i","s","s","a","u">>,
    <<"G","u","y","a","n","a">>,
    <<"H","a","i","t","i">>,
    <<"H","o","n","d","u","r","a","s">>,
    <<"H","u","n","g","a","r","y">>,
    <<"I","c","e","l","a","n","d">>,
    <<"I","n","d","i","a">>,
    <<"I","n","d","o","n","e","s","i","a">>,
    <<"I","r","a","n">>,
    <<"I","r","a","q">>,
    <<"I","r","e","l","a","n","d">>,
    <<"I","s","r","a","e","l">>,
    <<"I","t","a","l","y">>,
    <<"J","a","m","a","i","c","a">>,
    <<"J","a","p","a","n">>,
    <<"J","o","r","d","a","n">>,
    <<"K","a","z","a","k","h","s","t","a","n">>,
    <<"K","e","n","y","a">>,
    <<"K","i","r","i","b","a","t","i">>,
    <<"K","u","w","a","i","t">>,
    <<"K","y","r","g","y","z","s","t","a","n">>,
    <<"L","a","o","s">>,
    <<"L","a","t","v","i","a">>,
    <<"L","e","b","a","n","o","n">>,
    <<"L","e","s","o","t","h","o">>,
    <<"L","i","b","e","r","i","a">>,
    <<"L","i","b","y","a">>,
    <<"L","i","e","c","h","t","e","n","s","t","e","i","n">>,
    <<"L","i","t","h","u","a","n","i","a">>,
    <<"L","u","x","e","m","b","o","u","r","g">>,
    <<"M","a","d","a","g","a","s","c","a","r">>,
    <<"M","a","l","a","w","i">>,
    <<"M","a","l","a","y","s","i","a">>,
    <<"M","a","l","d","i","v","e","s">>,
    <<"M","a","l","i">>,
    <<"M","a","l","t","a">>,
    <<"M","a","r","s","h","a","l","l"," ","I","s","l","a","n","d","s">>,
    <<"M","a","u","r","i","t","a","n","i","a">>,
    <<"M","a","u","r","i","t","i","u","s">>,
    <<"M","e","x","i","c","o">>,
    <<"M","i","c","r","o","n","e","s","i","a">>,
    <<"M","o","l","d","o","v","a">>,
    <<"M","o","n","a","c","o">>,
    <<"M","o","n","g","o","l","i","a">>,
    <<"M","o","n","t","e","n","e","g","r","o">>,
    <<"M","o","r","o","c","c","o">>,
    <<"M","o","z","a","m","b","i","q","u","e">>,
    <<"M","y","a","n","m","a","r">>,
    <<"N","a","m","i","b","i","a">>,
    <<"N","a","u","r","u">>,
    <<"N","e","p","a","l">>,
    <<"N","e","t","h","e","r","l","a","n","d","s">>,
    <<"N","e","w"," ","Z","e","a","l","a","n","d">>,
    <<"N","i","c","a","r","a","g","u","a">>,
    <<"N","i","g","e","r">>,
    <<"N","i","g","e","r","i","a">>,
    <<"N","o","r","t","h"," ","K","o","r","e","a">>,
    <<"N","o","r","t","h"," ","M","a","c","e","d","o","n","i","a">>,
    <<"N","o","r","w","a","y">>,
    <<"O","m","a","n">>,
    <<"P","a","k","i","s","t","a","n">>,
    <<"P","a","l","a","u">>,
    <<"P","a","n","a","m","a">>,
    <<"P","a","p","u","a"," ","N","e","w"," ","G","u","i","n","e","a">>,
    <<"P","a","r","a","g","u","a","y">>,
    <<"P","e","r","u">>,
    <<"P","h","i","l","i","p","p","i","n","e","s">>,
    <<"P","o","l","a","n","d">>,
    <<"P","o","r","t","u","g","a","l">>,
    <<"Q","a","t","a","r">>,
    <<"R","o","m","a","n","i","a">>,
    <<"R","u","s","s","i","a">>,
    <<"R","w","a","n","d","a">>,
    <<"S","a","i","n","t"," ","K","i","t","t","s"," ","a","n","d"," ","N","e","v","i","s">>,
    <<"S","a","i","n","t"," ","L","u","c","i","a">>,
    <<"S","a","i","n","t"," ","V","i","n","c","e","n","t"," ","a","n","d"," ","t","h","e"," ","G","r","e","n","a","d","i","n","e","s">>,
    <<"S","a","m","o","a">>,
    <<"S","a","n"," ","M","a","r","i","n","o">>,
    <<"S","a","o"," ","T","o","m","e"," ","a","n","d"," ","P","r","i","n","c","i","p","e">>,
    <<"S","a","u","d","i"," ","A","r","a","b","i","a">>,
    <<"S","e","n","e","g","a","l">>,
    <<"S","e","r","b","i","a">>,
    <<"S","e","y","c","h","e","l","l","e","s">>,
    <<"S","i","e","r","r","a"," ","L","e","o","n","e">>,
    <<"S","i","n","g","a","p","o","r","e">>,
    <<"S","l","o","v","a","k","i","a">>,
    <<"S","l","o","v","e","n","i","a">>,
    <<"S","o","l","o","m","o","n"," ","I","s","l","a","n","d","s">>,
    <<"S","o","m","a","l","i","a">>,
    <<"S","o","u","t","h"," ","A","f","r","i","c","a">>,
    <<"S","o","u","t","h"," ","K","o","r","e","a">>,
    <<"S","o","u","t","h"," ","S","u","d","a","n">>,
    <<"S","p","a","i","n">>,
    <<"S","r","i"," ","L","a","n","k","a">>,
    <<"S","u","d","a","n">>,
    <<"S","u","r","i","n","a","m","e">>,
    <<"S","w","e","d","e","n">>,
    <<"S","w","i","t","z","e","r","l","a","n","d">>,
    <<"S","y","r","i","a">>,
    <<"T","a","j","i","k","i","s","t","a","n">>,
    <<"T","a","n","z","a","n","i","a">>,
    <<"T","h","a","i","l","a","n","d">>,
    <<"T","i","m","o","r","-","L","e","s","t","e">>,
    <<"T","o","g","o">>,
    <<"T","o","n","g","a">>,
    <<"T","r","i","n","i","d","a","d"," ","a","n","d"," ","T","o","b","a","g","o">>,
    <<"T","u","n","i","s","i","a">>,
    <<"T","u","r","k","e","y">>,
    <<"T","u","r","k","m","e","n","i","s","t","a","n">>,
    <<"T","u","v","a","l","u">>,
    <<"U","g","a","n","d","a">>,
    <<"U","k","r","a","i","n","e">>,
    <<"U","n","i","t","e","d"," ","A","r","a","b"," ","E","m","i","r","a","t","e","s">>,
    <<"U","n","i","t","e","d"," ","K","i","n","g","d","o","m">>,
    <<"U","n","i","t","e","d"," ","S","t","a","t","e","s">>,
    <<"U","r","u","g","u","a","y">>,
    <<"U","z","b","e","k","i","s","t","a","n">>,
    <<"V","a","n","u","a","t","u">>,
    <<"V","e","n","e","z","u","e","l","a">>,
    <<"V","i","e","t","n","a","m">>,
    <<"Y","e","m","e","n">>,
    <<"Z","a","m","b","i","a">>,
    <<"Z","i","m","b","a","b","w","e">>
  >>

UpperChars ==
    <<"A","B","C","D","E","F","G","H","I","J","K","L","M",
      "N","O","P","Q","R","S","T","U","V","W","X","Y","Z">>
LowerChars ==
    <<"a","b","c","d","e","f","g","h","i","j","k","l","m",
      "n","o","p","q","r","s","t","u","v","w","x","y","z">>
DigitChars == <<"0","1","2","3","4","5","6","7","8","9">>

Range(s) == {s[k] : k \in 1..Len(s)}

\* str.lower(), one character
LowerChar(c) ==
    IF \E k \in 1..Len(UpperChars) : UpperChars[k] = c
    THEN LowerChars[CHOOSE k \in 1..Len(UpperChars) : UpperChars[k] = c]
    ELSE c

\* str.lower()
StrLower(s) == [k \in 1..Len(s) |-> LowerChar(s[k])]

\* str.replace(old, new) for a one-character old; new is a string
RECURSIVE StrReplace(_, _, _)
StrReplace(s, old, new) ==
    IF s = <<>> THEN <<>>
    ELSE (IF Head(s) = old THEN new ELSE <<Head(s)>>)
         \o StrReplace(Tail(s), old, new)

\* re.sub(r"[^...]", repl, s): every character outside keep becomes repl
RECURSIVE ReSubNot(_, _, _)
ReSubNot(keep, repl, s) ==
    IF s = <<>> THEN <<>>
    ELSE (IF Head(s) \in keep THEN <<Head(s)>> ELSE repl)
         \o ReSubNot(keep, repl, Tail(s))

SafeFileChars ==
    Range(UpperChars) \cup Range(LowerChars) \cup Range(DigitChars)
        \cup {"_", ".", "-"}

sanitize_filename(name) == ReSubNot(SafeFileChars, <<"_">>, name)

\* safe_country and sym_id of main()
SymId(country) ==
    StrReplace(StrReplace(StrReplace(StrLower(country),
                                     " ", <<"_">>), "'", <<>>), "-", <<"_">>)
        \o <<"_","e","m","b","l","e","m">>

\* str.endswith
EndsWith(s, suffix) ==
    /\ Len(s) >= Len(suffix)
    /\ SubSeq(s, Len(s) - Len(suffix) + 1, Len(s)) = suffix

\* str.startswith
StartsWith(s, prefix) ==
    /\ Len(s) >= Len(prefix)
    /\ SubSeq(s, 1, Len(prefix)) = prefix

\* sub in s
Contains(s, sub) ==
    \E k \in 0..(Len(s) - Len(sub)) : SubSeq(s, k + 1, k + Len(sub)) = sub

WhiteChars == {" ", "\n", "\t"}

RECURSIVE LStrip(_)
LStrip(s) ==
    IF s # <<>> /\ Head(s) \in WhiteChars THEN LStrip(Tail(s)) ELSE s

RECURSIVE RStrip(_)
RStrip(s) ==
    IF s # <<>> /\ s[Len(s)] \in WhiteChars
    THEN RStrip(SubSeq(s, 1, Len(s) - 1)) ELSE s

\* str.strip()
Strip(s) == RStrip(LStrip(s))

\* "".join(parts)
RECURSIVE Join(_)
Join(parts) == IF parts = <<>> THEN <<>> ELSE Head(parts) \o Join(Tail(parts))

---------------------------------------------------------------------------
(* extract_inner_svg *)

\* An attribute of the root element: root.get(name) is None when absent.
NoAttr == [present |-> FALSE, val |-> <<>>]
Attr(v) == [present |-> TRUE, val |-> v]

\* Python truthiness of root.get(name)
Truthy(a) == a.present /\ a.val # <<>>

\* A file as etree sees it. bytes: "none" (no such file), "empty" (zero
\* bytes) or "xml"; parse: whether etree.parse yields a root element; tag:
\* root.tag as "{" namespace "}" local name; children: each child of the
\* root as etree.tostring serializes it (markup, then its tail text).
MkDoc(b, p, t, vb, w, h, ch) ==
    [bytes |-> b, parse |-> p, tag |-> t, viewBox |-> vb,
     width |-> w, height |-> h, children |-> ch]

NoFile    == MkDoc("none", FALSE, <<>>, NoAttr, NoAttr, NoAttr, <<>>)
EmptyFile == MkDoc("empty", FALSE, <<>>, NoAttr, NoAttr, NoAttr, <<>>)

\* local(tag): tag.split("}")[-1]
RECURSIVE local(_)
local(tag) ==
    IF \E k \in 1..Len(tag) : tag[k] = "}" THEN local(Tail(tag)) ELSE tag

NumChars == Range(DigitChars) \cup {".", "-"}

NoParse == [ok |-> FALSE, viewBox |-> <<>>, inner |-> <<>>]

\* The try body of extract_inner_svg once the root is parsed.
ExtractRoot(doc) ==
    IF local(doc.tag) # <<"s", "v", "g">> THEN NoParse
    ELSE LET sized == Truthy(doc.width) /\ Truthy(doc.height)
             w == ReSubNot(NumChars, <<>>, doc.width.val)
             h == ReSubNot(NumChars, <<>>, doc.height.val)
             viewBox == IF Truthy(doc.viewBox) THEN doc.viewBox.val
                        ELSE <<"0", " ", "0", " ">> \o w \o <<" ">> \o h
             inner == Strip(Join(doc.children))
         IN  IF ~Truthy(doc.viewBox) /\ ~sized THEN NoParse
             ELSE IF inner = <<>> THEN NoParse
             ELSE [ok |-> TRUE, viewBox |-> viewBox, inner |-> inner]

\* extract_inner_svg(svg_path): any exception of the parse gives None
extract_inner_svg(doc) ==
    IF doc.bytes # "xml" \/ ~doc.parse THEN NoParse ELSE ExtractRoot(doc)

\* Files the extraction is run on.
SvgTag   == <<"{", "w3", "}", "s", "v", "g">>
PlainTag == <<"s", "v", "g">>
HtmlTag  == <<"h", "t", "m", "l">>
TagValues == {SvgTag, PlainTag, HtmlTag}

ViewBoxValues ==
    {NoAttr, Attr(<<>>), Attr(<<"0", " ", "0", " ", "8", " ", "6">>)}

DimValues ==
    {NoAttr, Attr(<<>>), Attr(<<"1", "0", "0">>),
     Attr(<<"1", "2", ".", "5", "p", "x">>), Attr(<<"a", "u", "t", "o">>)}

ChildLists ==
    {<<>>, << <<"<g/>">> >>, << <<"<g/>", "\n">>, <<"<path/>", "\n", " ">> >>}

XmlDocs ==
    {MkDoc("xml", TRUE, t, vb, w, h, ch) :
        t \in TagValues, vb \in ViewBoxValues, w \in DimValues,
        h \in DimValues, ch \in ChildLists}

ExtractDocs ==
    XmlDocs \cup {NoFile, EmptyFile,
                  MkDoc("xml", FALSE, <<>>, NoAttr, NoAttr, NoAttr, <<>>)}

ExIdle == ex_pc = "idle" /\ ex_doc = NoFile /\ ex_ret = NoParse

ExInit == ex_pc = "call" /\ ex_doc \in ExtractDocs /\ ex_ret = NoParse

\* One call of extract_inner_svg on the file.
ExCall ==
    /\ ex_pc = "call"
    /\ ex_ret' = extract_inner_svg(ex_doc)
    /\ ex_pc' = "returned"
    /\ UNCHANGED <<ex_doc, mainVars, dlVars, seVars, idVars>>

---------------------------------------------------------------------------
(* download_svg *)

\* range(1, 5): the attempts of download_svg
MaxAttempts == 4

RetryStatuses == {429, 500, 502, 503, 504}

\* What one session.get(url) gives: a RequestException, or a response
\* with a status code and a body.
Raised == [exc |-> TRUE, status |-> 0, content |-> EmptyFile]
Resp(code, body) == [exc |-> FALSE, status |-> code, content |-> body]

\* One pass through the body of the for loop, on the result of session.get.
\* st: [attempt, done, ret, dest].
DlStepRetryOn403(st, r) ==
    IF r.exc THEN [st EXCEPT !.attempt = st.attempt + 1]
    ELSE IF r.status = 200
    THEN [st EXCEPT !.done = TRUE, !.ret = TRUE, !.dest = r.content]
    ELSE IF r.status \in RetryStatuses \cup {403}
    THEN [st EXCEPT !.attempt = st.attempt + 1]
    ELSE [st EXCEPT !.done = TRUE, !.ret = FALSE]

DlStep(st, r) ==
    IF r.exc THEN [st EXCEPT !.attempt = st.attempt + 1]
    ELSE IF r.status = 200
    THEN [st EXCEPT !.done = TRUE, !.ret = TRUE, !.dest = r.content]
    ELSE IF r.status \in RetryStatuses
    THEN [st EXCEPT !.attempt = st.attempt + 1]
    ELSE [st EXCEPT !.done = TRUE, !.ret = FALSE]

\* The for loop is over once attempt has left range(1, 5).
DlLoopOverLate(attempt) == attempt > MaxAttempts + 1

DlLoopOver(attempt) == attempt > MaxAttempts

\* download_svg(url, dest) run to its return on the results of its
\* session.get calls, in order: [ret, dest, gets].
RECURSIVE DlRun(_, _, _)
DlRun(st, rs, n) ==
    IF st.done THEN [ret |-> st.ret, dest |-> st.dest, gets |-> n]
    ELSE IF DlLoopOver(st.attempt) \/ rs = <<>>
    THEN [ret |-> FALSE, dest |-> st.dest, gets |-> n]
    ELSE DlRun(DlStep(st, Head(rs)), Tail(rs), n + 1)

download_svg(dest, rs) ==
    DlRun([attempt |-> 1, done |-> FALSE, ret |-> FALSE, dest |-> dest],
          rs, 0)

\* The statuses and bodies the server answers with.
Statuses == {200, 403, 404} \cup RetryStatuses

GoodDoc ==
    MkDoc("xml", TRUE, SvgTag, Attr(<<"0", " ", "0", " ", "8", " ", "6">>),
          NoAttr, NoAttr, << <<"<g/>">> >>)
SizedDoc ==
    MkDoc("xml", TRUE, PlainTag, NoAttr, Attr(<<"1", "0", "0">>),
          Attr(<<"5", "0", "p", "x">>), << <<"<path/>", "\n">> >>)
BareDoc ==
    MkDoc("xml", TRUE, SvgTag, Attr(<<"0", " ", "0", " ", "8", " ", "6">>),
          NoAttr, NoAttr, <<>>)

Bodies == {GoodDoc, EmptyFile}

Responses == {Raised} \cup {Resp(c, b) : c \in Statuses, b \in Bodies}

DlIdle ==
    /\ dl_pc = "idle" /\ dl_attempt = 0 /\ dl_ret = FALSE
    /\ dl_dest = NoFile /\ dl_dest0 = NoFile /\ dl_log = <<>>

DlInit ==
    /\ dl_pc = "call" /\ dl_attempt = 0 /\ dl_ret = FALSE
    /\ dl_dest \in {NoFile, EmptyFile, SizedDoc}
    /\ dl_dest0 = dl_dest /\ dl_log = <<>>

\* download_svg is entered: the first value of range(1, 5).
DlCall ==
    /\ dl_pc = "call"
    /\ dl_pc' = "loop"
    /\ dl_attempt' = 1
    /\ UNCHANGED <<dl_ret, dl_dest, dl_dest0, dl_log>>
    /\ UNCHANGED <<mainVars, seVars, exVars, idVars>>

\* One attempt: session.get and what the loop body does with its result.
DlGet ==
    /\ dl_pc = "loop"
    /\ ~DlLoopOver(dl_attempt)
    /\ \E r \in Responses :
         LET st == DlStep([attempt |-> dl_attempt, done |-> FALSE,
                           ret |-> FALSE, dest |-> dl_dest], r)
         IN  /\ dl_log' = Append(dl_log, IF r.exc THEN -1 ELSE r.status)
             /\ dl_attempt' = st.attempt
             /\ dl_dest' = st.dest
             /\ dl_ret' = st.ret
             /\ dl_pc' = IF st.done THEN "returned" ELSE "loop"
    /\ UNCHANGED dl_dest0
    /\ UNCHANGED <<mainVars, seVars, exVars, idVars>>

\* The loop ran out of attempts: the final return False.
DlExhausted ==
    /\ dl_pc = "loop"
    /\ DlLoopOver(dl_attempt)
    /\ dl_pc' = "returned"
    /\ dl_ret' = FALSE
    /\ UNCHANGED <<dl_attempt, dl_dest, dl_dest0, dl_log>>
    /\ UNCHANGED <<mainVars, seVars, exVars, idVars>>

---------------------------------------------------------------------------
(* commons_file_info_by_title and commons_search_svg *)

CoatOfArmsOf ==
    <<"C", "o", "a", "t", " ", "o", "f", " ", "a", "r", "m", "s", " ", "o",
      "f", " ">>
EmblemOf ==
    <<"E", "m", "b", "l", "e", "m", " ", "o", "f", " ">>
StateEmblemOf ==
    <<"S", "t", "a", "t", "e", " ", "e", "m", "b", "l", "e", "m", " ", "o",
      "f", " ">>
NationalEmblemOf ==
    <<"N", "a", "t", "i", "o", "n", "a", "l", " ", "e", "m", "b", "l", "e",
      "m", " ", "o", "f", " ">>
DotSvg == <<".", "s", "v", "g">>
FilePrefix == <<"F", "i", "l", "e", ":">>
InTitle == <<"i", "n", "t", "i", "t", "l", "e", ":", "\"">>
FiletypeSvg ==
    <<"\"", " ", "f", "i", "l", "e", "t", "y", "p", "e", ":", "s", "v",
      "g">>
CoatArmsFiletype ==
    <<"\"", " ", "c", "o", "a", "t", " ", "a", "r", "m", "s", " ", "f",
      "i", "l", "e", "t", "y", "p", "e", ":", "s", "v", "g">>
EmblemFiletype ==
    <<"\"", " ", "e", "m", "b", "l", "e", "m", " ", "f", "i", "l", "e",
      "t", "y", "p", "e", ":", "s", "v", "g">>
MimeSvg ==
    <<"i", "m", "a", "g", "e", "/", "s", "v", "g", "+", "x", "m", "l">>
MimePng == <<"i", "m", "a", "g", "e", "/", "p", "n", "g">>

\* patterns of commons_search_svg
patterns(country) ==
    <<CoatOfArmsOf \o country \o DotSvg,
      EmblemOf \o country \o DotSvg,
      StateEmblemOf \o country \o DotSvg,
      NationalEmblemOf \o country \o DotSvg>>

\* query_variants of commons_search_svg
query_variants(country) ==
    <<InTitle \o CoatOfArmsOf \o country \o FiletypeSvg,
      InTitle \o EmblemOf \o country \o FiletypeSvg,
      InTitle \o country \o CoatArmsFiletype,
      InTitle \o country \o EmblemFiletype>>

\* str.replace(old, new, 1): the first occurrence only
RECURSIVE ReplaceFirst(_, _, _)
ReplaceFirst(s, old, new) ==
    IF Len(s) < Len(old) THEN s
    ELSE IF StartsWith(s, old)
    THEN new \o SubSeq(s, Len(old) + 1, Len(s))
    ELSE <<Head(s)>> \o ReplaceFirst(Tail(s), old, new)

\* What get_json returns for a title query. ok: a non-empty dict came
\* back (None after the retries otherwise); pages: data["query"]["pages"].
\* A page: [missing, title, fullurl, canonicalurl, imageinfo], the urls
\* as attributes (absent or a string), imageinfo a list of [url, mime].
NoData == [ok |-> FALSE, pages |-> <<>>, search |-> <<>>]
PagesData(ps) == [ok |-> TRUE, pages |-> ps, search |-> <<>>]
SearchData(hs) == [ok |-> TRUE, pages |-> <<>>, search |-> hs]

Page(m, t, fu, cu, ii) ==
    [missing |-> m, title |-> t, fullurl |-> fu, canonicalurl |-> cu,
     imageinfo |-> ii]

\* a or b on two optional strings
OrElse(a, b) == IF Truthy(a) THEN a ELSE b

NotFound == [found |-> FALSE, title |-> <<>>, pageurl |-> NoAttr, url |-> <<>>]

\* commons_file_info_by_title(title), on the data get_json returned
commons_file_info_by_title(data) ==
    IF ~data.ok THEN NotFound
    ELSE IF data.pages = <<>> THEN NotFound
    ELSE LET page == data.pages[1] IN
         IF page.missing THEN NotFound
         ELSE IF page.imageinfo = <<>> THEN NotFound
         ELSE LET ii == page.imageinfo[1] IN
              IF /\ ~EndsWith(StrLower(ii.url), DotSvg)
                 /\ ~Contains(ii.mime, <<"s", "v", "g">>)
              THEN NotFound
              ELSE [found |-> TRUE, title |-> page.title,
                    pageurl |-> OrElse(page.fullurl, page.canonicalurl),
                    url |-> ii.url]

\* The answers of the API to the query for File:<title>.
UrlOf(title, ext) == <<"u", "/">> \o title \o ext
PageUrl == Attr(<<"p">>)

InfoAnswers(title) ==
    LET t == FilePrefix \o title IN
    { NoData,
      PagesData(<<>>),
      PagesData(<<Page(TRUE, t, NoAttr, NoAttr, <<>>)>>),
      PagesData(<<Page(FALSE, t, PageUrl, NoAttr, <<>>)>>),
      PagesData(<<Page(FALSE, t, PageUrl, NoAttr,
                       <<[url |-> UrlOf(title, <<".", "p", "n", "g">>),
                          mime |-> MimePng]>>)>>),
      PagesData(<<Page(FALSE, t, PageUrl, NoAttr,
                       <<[url |-> UrlOf(title, <<".", "S", "V", "G">>),
                          mime |-> <<>>]>>)>>),
      PagesData(<<Page(FALSE, t, NoAttr, NoAttr,
                       <<[url |-> UrlOf(title, <<>>),
                          mime |-> MimeSvg]>>)>>) }

\* Hits per search answer in the model (srlimit is 10 in the code).
MaxHits == 2

HitTitles ==
    { FilePrefix \o <<"a">> \o DotSvg,
      FilePrefix \o <<"b", ".", "S", "V", "G">>,
      FilePrefix \o <<"c", ".", "p", "n", "g">>,
      <<"a">> \o DotSvg }

SeqsUpTo(S, n) == UNION {[1..m -> S] : m \in 0..n}

SearchAnswers ==
    {NoData} \cup
    {SearchData([k \in 1..Len(ts) |-> [title |-> ts[k]]]) :
        ts \in SeqsUpTo(HitTitles, MaxHits)}

\* The countries commons_search_svg is called with in the model.
SearchCountries == {UN_COUNTRIES[6], UN_COUNTRIES[41]}

InfoCall(t) == [call |-> "info", arg |-> t]
SearchCall(q) == [call |-> "search", arg |-> q]

\* A hit of the search is resolved when it names an SVG file.
HitWanted(title) ==
    StartsWith(title, FilePrefix) /\ EndsWith(StrLower(title), DotSvg)

\* The exact tries go on while a pattern is left.
ExactLeftTwo(k) == k < 2

ExactLeft(k) == k < Len(patterns(se_country))

SeIdle ==
    /\ se_pc = "idle" /\ se_k = 0 /\ se_hits = <<>> /\ se_answer = <<>>
    /\ se_ret = NotFound
    /\ se_log = <<>> /\ se_resolved = <<>> /\ se_country = <<>>

SeInit ==
    /\ se_pc = "exact" /\ se_k = 1 /\ se_hits = <<>> /\ se_answer = <<>>
    /\ se_ret = NotFound
    /\ se_log = <<>> /\ se_resolved = <<>> /\ se_country \in SearchCountries

\* 1) exact tries: one pass of the loop over patterns
SeExact ==
    /\ se_pc = "exact"
    /\ LET t == patterns(se_country)[se_k] IN
       \E data \in InfoAnswers(t) :
         LET res == commons_file_info_by_title(data) IN
         /\ se_log' = Append(se_log, InfoCall(t))
         /\ IF res.found
            THEN se_ret' = res /\ se_pc' = "returned" /\ se_k' = se_k
            ELSE /\ se_ret' = se_ret
                 /\ IF ExactLeft(se_k)
                    THEN se_pc' = "exact" /\ se_k' = se_k + 1
                    ELSE se_pc' = "query" /\ se_k' = 1
    /\ UNCHANGED <<se_hits, se_answer, se_resolved, se_country>>
    /\ UNCHANGED <<mainVars, dlVars, exVars, idVars>>

\* 2) one search query: get_json, then the hits are inspected
SeQuery ==
    /\ se_pc = "query"
    /\ LET q == query_variants(se_country)[se_k] IN
       \E data \in SearchAnswers :
         /\ se_log' = Append(se_log, SearchCall(q))
         /\ se_resolved' = <<>>
         /\ se_answer' = data.search
         /\ IF ~data.ok
            THEN /\ se_hits' = <<>>
                 /\ IF se_k < Len(query_variants(se_country))
                    THEN se_pc' = "query" /\ se_k' = se_k + 1
                    ELSE se_pc' = "returned" /\ se_k' = se_k
            ELSE se_hits' = data.search /\ se_pc' = "hits" /\ se_k' = se_k
    /\ UNCHANGED <<se_ret, se_country>>
    /\ UNCHANGED <<mainVars, dlVars, exVars, idVars>>

\* One pass of the loop over hits, or its end
SeHit ==
    /\ se_pc = "hits"
    /\ IF se_hits = <<>>
       THEN /\ IF se_k < Len(query_variants(se_country))
               THEN se_pc' = "query" /\ se_k' = se_k + 1
               ELSE se_pc' = "returned" /\ se_k' = se_k
            /\ UNCHANGED <<se_hits, se_ret, se_resolved>>
       ELSE LET title == Head(se_hits).title IN
            IF ~HitWanted(title)
            THEN /\ se_hits' = Tail(se_hits)
                 /\ UNCHANGED <<se_pc, se_k, se_ret, se_resolved>>
            ELSE LET t == ReplaceFirst(title, FilePrefix, <<>>) IN
                 \E data \in InfoAnswers(t) :
                   LET info == commons_file_info_by_title(data) IN
                   /\ se_resolved' = Append(se_resolved, t)
                   /\ se_k' = se_k
                   /\ IF info.found
                      THEN /\ se_ret' = info /\ se_pc' = "returned"
                           /\ se_hits' = se_hits
                      ELSE /\ se_ret' = se_ret /\ se_pc' = "hits"
                           /\ se_hits' = Tail(se_hits)
    /\ UNCHANGED <<se_log, se_answer, se_country>>
    /\ UNCHANGED <<mainVars, dlVars, exVars, idVars>>

---------------------------------------------------------------------------
(* main *)

\* Entities of a run: the first NumEntities countries of UN_COUNTRIES.
NumEntities == 2
\* Invocations of the script, one after the other.
MaxRuns == 2
\* Length of the list found in public/symbols.json before the first run.
MaxItems == 2

Countries == SubSeq(UN_COUNTRIES, 1, NumEntities)

WikiUrl == <<"https://commons.wikimedia.org/wiki/">>
\* " \u2013 National emblem", the en dash written as two hyphens
NameSuffix == <<" -- National emblem">>

\* An element of the JSON list. kind: "record" (a dict with a hashable
\* "id"), "noid" (a dict without "id"), "badid" (a dict whose "id" is a
\* list or a dict), "nondict" (anything else).
MkItem(k, i, n, c, vb, s, src, lic) ==
    [kind |-> k, id |-> i, name |-> n, category |-> c, viewBox |-> vb,
     svg |-> s, source |-> src, license |-> lic]

\* item of main(), lines 281-291
MakeItemIdFromTitle(country, hit, safe, parsed) ==
    MkItem("record", safe, country \o NameSuffix, "National Emblems",
           parsed.viewBox, parsed.inner,
           IF Truthy(hit.pageurl) THEN hit.pageurl.val ELSE WikiUrl \o safe,
           "Check file page on Wikimedia Commons")

MakeItem(country, hit, safe, parsed) ==
    MkItem("record", SymId(country), country \o NameSuffix,
           "National Emblems", parsed.viewBox, parsed.inner,
           IF Truthy(hit.pageurl) THEN hit.pageurl.val ELSE WikiUrl \o safe,
           "Check file page on Wikimedia Commons")

\* d[r["id"]] = r on a dict kept in insertion order
DictSetAppend(d, r) == Append(d, r)

DictSet(d, r) ==
    IF \E k \in 1..Len(d) : d[k].id = r.id
    THEN [k \in 1..Len(d) |-> IF d[k].id = r.id THEN r ELSE d[k]]
    ELSE Append(d, r)

\* {s["id"]: s for s in existing if isinstance(s, dict) and "id" in s}
RECURSIVE ById(_, _)
ById(d, items) ==
    IF items = <<>> THEN d
    ELSE LET s == Head(items) IN
         ById(IF s.kind = "record" THEN DictSet(d, s) ELSE d,
              Tail(items))

\* for r in results: existing_by_id[r["id"]] = r; list(....values())
RECURSIVE MergeNewOnly(_, _)
MergeNewOnly(d, rs) ==
    IF rs = <<>> THEN <<>> ELSE DictSet(MergeNewOnly(d, Tail(rs)), Head(rs))

RECURSIVE Merge(_, _)
Merge(d, rs) ==
    IF rs = <<>> THEN d ELSE Merge(DictSet(d, Head(rs)), Tail(rs))

\* public/symbols.json. kind: "absent"; "garbage" (json.load raises);
\* "scalar" (null, a number, true: valid JSON that cannot be iterated);
\* "object" (a JSON object or string: iterating it gives strings);
\* "list" (a JSON list of items).
File(k, items) == [kind |-> k, items |-> items]

\* What "for s in existing" iterates over, after the try/except.
Iterated(file) ==
    CASE file.kind = "list" -> file.items
      [] file.kind = "object" ->
            <<MkItem("nondict", <<>>, <<>>, "", <<>>, <<>>, <<>>, "")>>
      [] OTHER -> <<>>

\* Line 250 raises TypeError: the value is not iterable, or an "id" is
\* not hashable. Nothing catches it.
LoadRaises(file) ==
    \/ file.kind = "scalar"
    \/ \E k \in 1..Len(Iterated(file)) : Iterated(file)[k].kind = "badid"

\* The records somebody put into public/symbols.json before the first run.
StarId == <<"s", "t", "a", "r">>
OldItem(k, i, n) == MkItem(k, i, n, "Shapes", <<>>, <<>>, <<>>, "")
OldItems ==
    { OldItem("record", StarId, <<"v1">>),
      OldItem("record", StarId, <<"v2">>),
      OldItem("noid", <<>>, <<"v1">>),
      OldItem("badid", <<>>, <<"v1">>) }

InitialFiles ==
    {File(k, <<>>) : k \in {"absent", "garbage", "scalar", "object"}}
    \cup {File("list", items) : items \in SeqsUpTo(OldItems, MaxItems)}

\* What commons_search_svg returns to main in the model.
MainHits ==
    { NotFound,
      [found |-> TRUE, title |-> FilePrefix \o <<"A", " ", "b">> \o DotSvg,
       pageurl |-> PageUrl, url |-> <<"u", "1">>],
      [found |-> TRUE, title |-> FilePrefix \o <<"C">> \o DotSvg,
       pageurl |-> NoAttr, url |-> <<"u", "2">>] }

CacheNames == {sanitize_filename(h.title) : h \in MainHits \ {NotFound}}

\* os.path.exists(dest) and os.path.getsize(dest) > 0
CacheHitNever(c, dest) == FALSE

CacheHit(c, dest) == c[dest].bytes # "none" /\ c[dest].bytes # "empty"

\* The answers of the file server to the GETs of one download_svg call.
Unavailable == Resp(503, EmptyFile)
MainScripts ==
    { <<Resp(200, GoodDoc)>>, <<Unavailable, Resp(200, BareDoc)>>,
      <<Resp(200, EmptyFile)>>, <<Resp(403, EmptyFile)>> }

\* failed += 1; continue
FailBreak(st) == [st EXCEPT !.failed = @ + 1, !.idx = NumEntities]

Fail(st) == [st EXCEPT !.failed = @ + 1, !.idx = @ + 1]

\* results.append(item); ok += 1
Succeed(st, item) ==
    [st EXCEPT !.results = Append(@, item), !.ok = @ + 1, !.idx = @ + 1]

NoLast == [kind |-> "none", country |-> <<>>]
NoPrev == [failed |-> 0, paths |-> {}]

MainInit ==
    /\ out_json \in InitialFiles
    /\ cache = [n \in CacheNames |-> NoFile]
    /\ pc = "start" /\ run = 0 /\ idx = 0 /\ ok = 0 /\ failed = 0
    /\ results = <<>> /\ existing_by_id = <<>> /\ gets = 0 /\ hits = <<>>
    /\ last = NoLast /\ prev = NoPrev /\ out_before = out_json

MainIdle ==
    /\ out_json = File("absent", <<>>)
    /\ cache = [n \in CacheNames |-> NoFile]
    /\ pc = "idle" /\ run = 0 /\ idx = 0 /\ ok = 0 /\ failed = 0
    /\ results = <<>> /\ existing_by_id = <<>> /\ gets = 0 /\ hits = <<>>
    /\ last = NoLast /\ prev = NoPrev /\ out_before = out_json

\* Lines 238-250: the counters, the existing file, existing_by_id.
MainLoad ==
    /\ pc = "start"
    /\ out_before' = out_json
    /\ results' = <<>> /\ ok' = 0 /\ failed' = 0 /\ idx' = 0
    /\ gets' = 0 /\ hits' = <<>> /\ last' = NoLast
    /\ IF LoadRaises(out_json)
       THEN pc' = "crashed" /\ existing_by_id' = <<>>
       ELSE pc' = "loop" /\ existing_by_id' = ById(<<>>, Iterated(out_json))
    /\ UNCHANGED <<out_json, cache, run, prev>>
    /\ UNCHANGED <<dlVars, seVars, exVars, idVars>>

\* The loop variables after one pass of the loop body.
Pass(st) ==
    /\ ok' = st.ok /\ failed' = st.failed
    /\ results' = st.results /\ idx' = st.idx

\* Lines 275-293: the extraction and the record, with the cache as the
\* fetch left it and the number n of GETs it issued.
Extract(country, hit, safe, c, n, st) ==
    LET parsed == extract_inner_svg(c[safe]) IN
    /\ cache' = c
    /\ gets' = gets + n
    /\ hits' = Append(hits, safe)
    /\ IF ~parsed.ok
       THEN /\ Pass(Fail(st))
            /\ last' = [kind |-> "exfail", country |-> country]
       ELSE /\ Pass(Succeed(st, MakeItem(country, hit, safe, parsed)))
            /\ last' = [kind |-> "ok", country |-> country]

\* Lines 252-293: one pass of the loop over the countries.
MainEntity ==
    /\ pc = "loop"
    /\ idx < NumEntities
    /\ LET country == Countries[idx + 1]
           st == [ok |-> ok, failed |-> failed, results |-> results,
                  idx |-> idx]
       IN  \E hit \in MainHits :
             IF ~hit.found
             THEN /\ Pass(Fail(st))
                  /\ hits' = Append(hits, <<>>)
                  /\ last' = [kind |-> "notfound", country |-> country]
                  /\ UNCHANGED <<cache, gets>>
             ELSE LET safe == sanitize_filename(hit.title) IN
                  IF CacheHit(cache, safe)
                  THEN Extract(country, hit, safe, cache, 0, st)
                  ELSE \E script \in MainScripts :
                         LET d == download_svg(cache[safe], script) IN
                         IF ~d.ret
                         THEN /\ Pass(Fail(st))
                              /\ cache' = [cache EXCEPT ![safe] = d.dest]
                              /\ gets' = gets + d.gets
                              /\ hits' = Append(hits, safe)
                              /\ last' = [kind |-> "dlfail",
                                          country |-> country]
                         ELSE Extract(country, hit, safe,
                                      [cache EXCEPT ![safe] = d.dest],
                                      d.gets, st)
    /\ UNCHANGED <<out_json, pc, run, existing_by_id, prev, out_before>>
    /\ UNCHANGED <<dlVars, seVars, exVars, idVars>>

\* Lines 295-302: the merge and the write of public/symbols.json.
MainWrite ==
    /\ pc = "loop"
    /\ idx >= NumEntities
    /\ out_json' = File("list", Merge(existing_by_id, results))
    /\ pc' = "done"
    /\ run' = run + 1
    /\ prev' = [failed |-> failed, paths |-> Range(hits)]
    /\ UNCHANGED <<cache, idx, ok, failed, results, existing_by_id, gets,
                   hits, last, out_before>>
    /\ UNCHANGED <<dlVars, seVars, exVars, idVars>>

\* The script is invoked again.
MainRerun ==
    /\ pc = "done"
    /\ run < MaxRuns
    /\ pc' = "start"
    /\ UNCHANGED <<out_json, cache, run, idx, ok, failed, results,
                   existing_by_id, gets, hits, last, prev, out_before>>
    /\ UNCHANGED <<dlVars, seVars, exVars, idVars>>

---------------------------------------------------------------------------
(* Identifiers of the records *)

IdIdle == id_a = 0 /\ id_b = 0 /\ id_reca = <<>> /\ id_recb = <<>>

IdInit ==
    /\ id_a \in 1..Len(UN_COUNTRIES)
    /\ id_b \in id_a..Len(UN_COUNTRIES)
    /\ id_reca = <<>> /\ id_recb = <<>>

IdParsed == {extract_inner_svg(GoodDoc), extract_inner_svg(SizedDoc)}

\* The record main() builds for the first entity, whatever was resolved
\* and extracted for it.
IdBuildA ==
    /\ id_reca = <<>>
    /\ \E hit \in MainHits \ {NotFound}, parsed \in IdParsed :
         id_reca' = MakeItem(UN_COUNTRIES[id_a], hit,
                             sanitize_filename(hit.title), parsed).id
    /\ UNCHANGED <<id_a, id_b, id_recb>>
    /\ UNCHANGED <<mainVars, dlVars, seVars, exVars>>

\* The same for the second entity.
IdBuildB ==
    /\ id_recb = <<>>
    /\ \E hit \in MainHits \ {NotFound}, parsed \in IdParsed :
         id_recb' = MakeItem(UN_COUNTRIES[id_b], hit,
                             sanitize_filename(hit.title), parsed).id
    /\ UNCHANGED <<id_a, id_b, id_reca>>
    /\ UNCHANGED <<mainVars, dlVars, seVars, exVars>>

---------------------------------------------------------------------------
(* Specifications *)

Init == MainInit /\ DlIdle /\ SeIdle /\ ExIdle /\ IdIdle
Next == MainLoad \/ MainEntity \/ MainWrite \/ MainRerun
Spec == Init /\ [][Next]_vars

InitDownload == DlInit /\ MainIdle /\ SeIdle /\ ExIdle /\ IdIdle
NextDownload == DlCall \/ DlGet \/ DlExhausted
SpecDownload == InitDownload /\ [][NextDownload]_vars

InitSearch == SeInit /\ MainIdle /\ DlIdle /\ ExIdle /\ IdIdle
NextSearch == SeExact \/ SeQuery \/ SeHit
SpecSearch == InitSearch /\ [][NextSearch]_vars

InitExtract == ExInit /\ MainIdle /\ DlIdle /\ SeIdle /\ IdIdle
NextExtract == ExCall
SpecExtract == InitExtract /\ [][NextExtract]_vars

InitIds == IdInit /\ MainIdle /\ DlIdle /\ SeIdle /\ ExIdle
NextIds == IdBuildA \/ IdBuildB
SpecIds == InitIds /\ [][NextIds]_vars

\* download_svg under the scheduling of a sequential program: a step that
\* can be taken is taken.
SpecDownloadFair == SpecDownload /\ WF_vars(NextDownload)

---------------------------------------------------------------------------
(* Properties: download_svg *)

Last(s) == s[Len(s)]
IsRetryable(o) == o = -1 \/ o \in {429, 500, 502, 503, 504}

\* What holds of every state of a call of download_svg: at most 4 GETs;
\* a 200 is the last GET and makes the call return True; a call that has
\* returned False on retryable outcomes alone has used all 4 attempts.
C5_Bounded ==
    /\ Len(dl_log) <= 4
    /\ \A k \in 1..Len(dl_log) :
         dl_log[k] = 200 =>
            k = Len(dl_log) /\ dl_pc = "returned" /\ dl_ret
    /\ dl_pc = "returned" =>
         /\ dl_log # <<>>
         /\ dl_ret <=> Last(dl_log) = 200
         /\ (\A k \in 1..Len(dl_log) : IsRetryable(dl_log[k]))
               => ~dl_ret /\ Len(dl_log) = 4
    /\ dl_pc \in {"call", "loop", "returned"}

\* C5: download_svg always terminates after at most 4 GET attempts: under
\* any sequence of retryable statuses, network exceptions and other
\* responses it returns True on the first 200 within those attempts, or
\* False once the 4 attempts are used up, and it always returns.
C5_Terminates == []C5_Bounded /\ <>(dl_pc = "returned")

\* Four retryable outcomes in a row, exceptions and 503 among them, and
\* the call has returned False.
C5_Witness ==
    /\ dl_pc = "returned" /\ ~dl_ret
    /\ dl_log = <<503, -1, 503, 429>>

\* C9: a status that is neither 200 nor retryable (403 among them) is the
\* last GET of the call, which returns False with the destination file as
\* it was; the destination is written only on a 200.
C9_FatalStatus ==
    /\ \A k \in 1..Len(dl_log) :
         (dl_log[k] # 200 /\ ~IsRetryable(dl_log[k])) =>
            /\ k = Len(dl_log)
            /\ dl_pc = "returned"
            /\ ~dl_ret
            /\ dl_dest = dl_dest0
    /\ (\A k \in 1..Len(dl_log) : dl_log[k] # 200) => dl_dest = dl_dest0
    /\ dl_dest # dl_dest0 => dl_ret

\* A 403 after two retried attempts: returned False, file untouched.
C9_Witness ==
    /\ dl_pc = "returned" /\ ~dl_ret
    /\ dl_log = <<503, -1, 403>>
    /\ dl_dest = SizedDoc /\ dl_dest0 = SizedDoc

---------------------------------------------------------------------------
(* Properties: extract_inner_svg *)

\* A length the claim can read a number from: digits, "." and "-", then
\* a unit without any of them.
RECURSIVE NumberOf(_)
NumberOf(s) ==
    IF s # <<>> /\ Head(s) \in NumChars
    THEN <<Head(s)>> \o NumberOf(Tail(s)) ELSE <<>>

IsLength(a) ==
    /\ a.present
    /\ NumberOf(a.val) # <<>>
    /\ \A k \in (Len(NumberOf(a.val)) + 1)..Len(a.val) :
         a.val[k] \notin NumChars

\* C7: with a non-empty viewBox attribute the returned viewBox is that
\* value; without one but with width and height it is "0 0 W H", W and H
\* the numeric width and height; with no viewBox and no bounding box
\* derivable from width and height the function returns none.
C7_ViewBox ==
    (ex_pc = "returned" /\ ex_doc.bytes = "xml" /\ ex_doc.parse
        /\ local(ex_doc.tag) = <<"s", "v", "g">>) =>
      /\ (Truthy(ex_doc.viewBox) /\ ex_ret.ok)
            => ex_ret.viewBox = ex_doc.viewBox.val
      /\ (~Truthy(ex_doc.viewBox) /\ IsLength(ex_doc.width)
            /\ IsLength(ex_doc.height) /\ ex_ret.ok)
            => ex_ret.viewBox =
                 <<"0", " ", "0", " ">> \o NumberOf(ex_doc.width.val)
                    \o <<" ">> \o NumberOf(ex_doc.height.val)
      /\ (~Truthy(ex_doc.viewBox)
            /\ ~(IsLength(ex_doc.width) /\ IsLength(ex_doc.height)))
            => ~ex_ret.ok

---------------------------------------------------------------------------
(* Properties: identifiers *)

\* C3: the identifier of a record depends on the entity name alone (the
\* same entity gets the same identifier whatever title, URL and content
\* were resolved for it), and two distinct entities of UN_COUNTRIES never
\* get the same identifier.
C3_Identifier ==
    (id_reca # <<>> /\ id_recb # <<>>) =>
        (id_reca = id_recb <=> id_a = id_b)

\* Two names that lower(), the dropped apostrophe and the replaced hyphen
\* and spaces all change.
C3_Witness ==
    /\ id_reca = <<"c", "ô", "t", "e", "_", "d", "i", "v", "o", "i", "r",
                   "e", "_", "e", "m", "b", "l", "e", "m">>
    /\ id_recb = <<"g", "u", "i", "n", "e", "a", "_", "b", "i", "s", "s",
                   "a", "u", "_", "e", "m", "b", "l", "e", "m">>

---------------------------------------------------------------------------
(* Properties: commons_search_svg *)

\* The titles commons_search_svg resolves for a list of hits, in order.
RECURSIVE SvgFileTitles(_)
SvgFileTitles(hs) ==
    IF hs = <<>> THEN <<>>
    ELSE LET t == Head(hs).title IN
         (IF /\ Len(t) > 5 /\ SubSeq(t, 1, 5) = FilePrefix
             /\ StrLower(SubSeq(t, Len(t) - 3, Len(t))) = DotSvg
          THEN <<SubSeq(t, 6, Len(t))>> ELSE <<>>)
         \o SvgFileTitles(Tail(hs))

\* The hits of the current query the loop is done with.
HitsDone ==
    SubSeq(se_answer, 1,
           Len(se_answer) - Len(se_hits)
              + (IF se_pc = "returned" /\ se_ret.found /\ se_hits # <<>>
                 THEN 1 ELSE 0))

\* C10: the four exact titles are looked up in their order and the first
\* that resolves is returned with no later call; a search query is issued
\* only after all four exact lookups failed; the hits of a query are
\* resolved in order and the first SVG match is returned; the result is
\* "not found" only when every exact title and every query was tried.
C10_Ordering ==
    LET ps == patterns(se_country)
        qs == query_variants(se_country)
        n  == Len(se_log)
    IN  /\ n <= 8
        /\ \A k \in 1..n :
             se_log[k] = IF k <= 4 THEN [call |-> "info", arg |-> ps[k]]
                         ELSE [call |-> "search", arg |-> qs[k - 4]]
        /\ se_pc = "exact" => n = se_k - 1 /\ ~se_ret.found
        /\ se_pc \in {"query", "hits"} => n >= 4 /\ ~se_ret.found
        /\ se_pc = "query" => n = 4 + se_k - 1
        /\ se_pc = "hits" => n = 4 + se_k
        /\ n <= 4 => se_resolved = <<>>
        /\ n > 4 => se_resolved = SvgFileTitles(HitsDone)
        /\ (se_pc = "returned" /\ se_ret.found /\ n <= 4) =>
               se_ret.title = FilePrefix \o ps[n]
        /\ (se_pc = "returned" /\ se_ret.found /\ n > 4) =>
               /\ se_resolved # <<>>
               /\ se_ret.title = FilePrefix \o Last(se_resolved)
        /\ (se_pc = "returned" /\ ~se_ret.found) =>
               n = 8 /\ se_hits = <<>>

\* Found by the second search query, at its second resolved hit.
C10_Witness ==
    /\ se_pc = "returned" /\ se_ret.found
    /\ Len(se_log) = 6
    /\ se_resolved = << <<"b", ".", "S", "V", "G">>, <<"a">> \o DotSvg >>

---------------------------------------------------------------------------
(* Properties: main *)

Ids(items) == {items[k].id : k \in 1..Len(items)}

\* The file ends up holding the item, unchanged.
Kept(item) == \E j \in 1..Len(out_json.items) : out_json.items[j] = item

\* C1 as stated: every record of the existing file whose identifier no
\* entity of the run produces is present unchanged in the list written at
\* the end of the run.
C1_AllRecordsKept ==
    pc = "done" =>
      \A k \in 1..Len(out_before.items) :
        LET s == out_before.items[k] IN
        (s.kind = "record" /\ s.id \notin Ids(results)) => Kept(s)

\* C1, amended: every record of the existing list whose identifier no
\* entity of the run produces, and which is the last record of the list
\* with that identifier, is in the file unchanged when the run ends, for
\* any combination of successes and failures of the entities.
C1_LastRecordsKept ==
    pc \in {"done", "crashed"} =>
      \A k \in 1..Len(out_before.items) :
        LET s == out_before.items[k] IN
        (/\ s.kind = "record"
         /\ s.id \notin Ids(results)
         /\ \A j \in (k + 1)..Len(out_before.items) :
              ~(out_before.items[j].kind = "record"
                  /\ out_before.items[j].id = s.id))
        => Kept(s)

\* A run with one success and one failure has written the file, and a
\* record of the existing file with another identifier is still there.
C1_Witness ==
    /\ pc = "done" /\ ok = 1 /\ failed = 1
    /\ \E k \in 1..Len(out_before.items) :
         /\ out_before.items[k].kind = "record"
         /\ out_before.items[k].id = StarId
         /\ out_before.items[k].id \notin Ids(results)
         /\ Kept(out_before.items[k])
    /\ Len(out_json.items) = 2

\* C2: after any number of runs the written list holds no two records
\* with the same identifier: a record produced for an identifier that is
\* already there replaces the earlier record.
C2_UniqueIds ==
    /\ run >= 1 =>
         /\ out_json.kind = "list"
         /\ \A j, k \in 1..Len(out_json.items) :
              out_json.items[j].id = out_json.items[k].id => j = k
    /\ pc = "done" =>
         \A k \in 1..Len(results) :
           (\A j \in (k + 1)..Len(results) : results[j].id # results[k].id)
              => Kept(results[k])

\* The second run has produced a record for an identifier of the file it
\* found, with another content, and the file holds the new record alone.
C2_Witness ==
    /\ pc = "done" /\ run = 2
    /\ \E k \in 1..Len(results), j \in 1..Len(out_before.items) :
         /\ out_before.items[j].id = results[k].id
         /\ out_before.items[j] # results[k]
         /\ out_before.items[j].name = results[k].name
         /\ Kept(results[k])
         /\ ~Kept(out_before.items[j])

\* One pass of the loop of main().
LoopPass == pc = "loop" /\ pc' = "loop"

\* C6: a failure of one entity (lookup, download or extraction) adds one
\* to failed and no record, and the loop goes on with the next entity;
\* every entity is processed once, in order, and at the end ok + failed
\* is the number of entities.
C6_Isolation ==
    [][ /\ LoopPass =>
            /\ idx' = idx + 1
            /\ last'.country = Countries[idx + 1]
            /\ Len(hits') = idx'
            /\ last'.kind \in {"notfound", "dlfail", "exfail"} =>
                  failed' = failed + 1 /\ ok' = ok /\ results' = results
            /\ last'.kind = "ok" =>
                  /\ failed' = failed /\ ok' = ok + 1
                  /\ Len(results') = Len(results) + 1
                  /\ SubSeq(results', 1, Len(results)) = results
                  /\ Last(results').name = Countries[idx + 1] \o NameSuffix
            /\ last'.kind # "none"
        /\ pc' = "done" =>
            /\ idx' = NumEntities
            /\ ok' + failed' = NumEntities
            /\ Len(results') = ok' ]_vars

\* The first entity failed and the loop went on: the second one has its
\* record in the file.
C6_Witness ==
    /\ pc = "done" /\ failed = 1 /\ ok = 1
    /\ hits[1] = <<>>
    /\ results[1].id = SymId(Countries[2])
    /\ Kept(results[1])

\* C8: an existing file whose content is not the expected list of records
\* (unparseable, or parseable but malformed) is treated as an empty
\* collection; the run goes through all entities and writes the file, and
\* never aborts because of the content of the existing file.
C8_MalformedTolerated ==
    /\ pc # "crashed"
    /\ (pc \in {"loop", "done"}
          /\ out_before.kind \in {"garbage", "scalar", "object"})
         => existing_by_id = <<>>

\* A pass of the loop whose resolved title has a non-empty cache file:
\* no GET, the cache as it was, and the record (or the failure) is what the
\* extraction gives on the cached file.
C4_CachedPass ==
    LoopPass =>
      LET dest == Last(hits') IN
      (dest # <<>> /\ cache[dest].bytes = "xml") =>
        /\ gets' = gets
        /\ cache' = cache
        /\ last'.kind \in {"ok", "exfail"}
        /\ last'.kind = "ok" <=> extract_inner_svg(cache[dest]).ok
        /\ last'.kind = "ok" =>
             Last(results').viewBox = extract_inner_svg(cache[dest]).viewBox

\* A run that follows a run without failures.
AfterFullSuccess == pc = "loop" /\ run >= 1 /\ prev.failed = 0

\* C4 as stated: a non-empty cache file for the resolved title means no
\* GET and no rewrite of the file, the extraction runs on the cached file;
\* and a second run after a fully successful first run performs zero asset
\* downloads.
C4_NoDownloadAtAll ==
    [][C4_CachedPass /\ (AfterFullSuccess => gets = 0)']_vars

\* C4, amended: the same for a cache hit; and a run after a fully
\* successful run performs zero asset downloads as long as every entity
\* it has found resolves to a title whose cache path one of the entities
\* had in the earlier run.
C4_NoDownloadOfCached ==
    [][C4_CachedPass
        /\ ((AfterFullSuccess
               /\ \A k \in 1..Len(hits) :
                    hits[k] = <<>> \/ hits[k] \in prev.paths)
              => gets = 0)']_vars

\* The second run, after a first run that downloaded every file, has
\* processed every entity from the cache.
C4_Witness ==
    /\ AfterFullSuccess /\ idx = NumEntities /\ ok = NumEntities
    /\ Range(hits) = prev.paths /\ Cardinality(prev.paths) = 2 /\ gets = 0
    /\ \A n \in Range(hits) : cache[n] = GoodDoc



=============================================================================
